---- MODULE Spec2Model ----
(***************************************************************************)
(* WSServer (server/src/wsServer.ts, kept in src/server/src/index.ts from  *)
(* line 159 on): the connection registry, the three routing helpers and    *)
(* the dispatch of the transport's 'connection', 'message', 'close' and    *)
(* 'error' events to a pluggable AppLogic.                                  *)
(*                                                                         *)
(* One action is one run-to-completion event handler of the Node event     *)
(* loop: the handlers are synchronous, so nothing interleaves inside one.  *)
(*                                                                         *)
(* WSClient (client/src/wsClient.ts, kept in src/client/src/App.tsx from   *)
(* line 271 on) is modelled next to it, in a specification of its own      *)
(* (ClientSpec): the browser page that owns one WSClient, its WebSockets   *)
(* and its timers.                                                         *)
(*                                                                         *)
(* chatAppLogic (server/src/appLogic.ts, kept in                           *)
(* src/server/test/appLogic.test.ts from line 258 on) is driven as its    *)
(* unit tests drive it, callback by callback (ChatSpec), and as the        *)
(* AppLogic of the WSServer, the way the server's entry point builds it    *)
(* (ChatServerSpec).                                                       *)
(*                                                                         *)
(* App (src/client/src/App.tsx, lines 1 to 270), the React component that  *)
(* owns the page's WSClient, is modelled in AppSpec: React commits the     *)
(* render and runs the effects of a state change before the page handles   *)
(* its next event.                                                         *)
(***************************************************************************)
EXTENDS Naturals, Sequences, FiniteSets, TLC

\* ---------------------------------------------------------------- bounds
MaxConns == 3        \* sockets the transport ever hands to the server
MaxClock == 1        \* Date.now() takes the values 0..MaxClock
MaxRnd == 2          \* Math.random() takes the values 1..MaxRnd
MaxLoad == 3         \* connections, frames, errors and free helper calls of a run
MaxSockets == 4      \* WebSockets the page ever creates
MaxTimers == 2       \* timers the page ever sets
MaxCalls == 4        \* calls the page makes on the WSClient
MaxChatCalls == 4    \* callbacks of chatAppLogic invoked in a run

Sockets == 1..MaxConns
NoWs == 0

\* ws readyState: the transport's own constants, CONNECTING is never seen by
\* the server ('connection' hands over an open socket).  PENDING marks a
\* socket the transport has not handed over yet.
PENDING == "PENDING"
OPEN == "OPEN"
CLOSING == "CLOSING"
CLOSED == "CLOSED"

\* ------------------------------------------------------------ identifiers
\* `client_${Date.now()}_${Math.random().toString(36).substring(2, 11)}`:
\* the text is determined by, and determines, the pair (time, random draw).
generateClientId(t, r) == <<t, r>>

NoId == <<>>
\* an id no connection was ever given, for sendTo("nonexistent", m)
Nonexistent == <<"nonexistent">>

\* ------------------------------------------------------------- messages
\* ServerMessage: { type, payload }.  The payload fields the modelled
\* messages use are clientId (welcome) and text / message (the others).
Msg(type, clientId, text) == [type |-> type, clientId |-> clientId, text |-> text]

Welcome(id) == Msg("welcome", id, "")
SystemMessage(text) == Msg("systemMessage", NoId, text)
ErrorMessage(text) == Msg("error", NoId, text)

\* JSON.stringify(message): what goes on the wire is text, not the object.
JSONstringify(m) == <<"json", m>>

\* Inbound wire texts and what JSON.parse makes of each.
FrameBad == "{oops"
FrameNumber == "42"
FrameNull == "null"
FrameEmpty == "{}"
FrameSend == "{\"type\":\"sendMessage\",\"payload\":{\"text\":\"hi\"}}"
FrameSendNoPayload == "{\"type\":\"sendMessage\"}"
FrameOther == "{\"type\":\"setUsername\",\"payload\":{\"username\":\"Al\"}}"

Frames ==
    {FrameBad, FrameNumber, FrameNull, FrameEmpty, FrameSend,
     FrameSendNoPayload, FrameOther}

Undefined == "undefined"

\* A parsed JavaScript value: its kind, and for an object its type and
\* payload.text / payload.username properties (Undefined when missing;
\* hasPayload tells whether .payload exists at all).
JSValue(kind, type, hasPayload, text) ==
    [kind |-> kind, type |-> type, hasPayload |-> hasPayload, text |-> text]

NoValue == JSValue("none", Undefined, FALSE, Undefined)

\* JSON.parse(data.toString()): [ok |-> FALSE] is a thrown SyntaxError.
JSONparse(data) ==
    CASE data = FrameBad -> [ok |-> FALSE, value |-> NoValue]
      [] data = FrameNumber ->
            [ok |-> TRUE, value |-> JSValue("number", Undefined, FALSE, Undefined)]
      [] data = FrameNull ->
            [ok |-> TRUE, value |-> JSValue("null", Undefined, FALSE, Undefined)]
      [] data = FrameEmpty ->
            [ok |-> TRUE, value |-> JSValue("object", Undefined, FALSE, Undefined)]
      [] data = FrameSend ->
            [ok |-> TRUE, value |-> JSValue("object", "sendMessage", TRUE, "hi")]
      [] data = FrameSendNoPayload ->
            [ok |-> TRUE, value |-> JSValue("object", "sendMessage", FALSE, Undefined)]
      [] data = FrameOther ->
            [ok |-> TRUE, value |-> JSValue("object", "setUsername", TRUE, "Al")]

\* The message envelope of the wire format: a record with a string type.
IsEnvelope(v) == v.kind = "object" /\ v.type # Undefined

\* ------------------------------------------------- the registry (a Map)
\* A JavaScript Map iterates in insertion order; set() on a present key
\* replaces the value in place.  The registry is a sequence of entries.
Entry(id, ws) == [id |-> id, ws |-> ws]

MapHas(m, k) == \E i \in 1..Len(m) : m[i].id = k

MapGet(m, k) ==
    IF MapHas(m, k)
    THEN m[CHOOSE i \in 1..Len(m) : m[i].id = k].ws
    ELSE NoWs

MapSet(m, k, v) ==
    IF MapHas(m, k)
    THEN [i \in 1..Len(m) |-> IF m[i].id = k THEN Entry(k, v) ELSE m[i]]
    ELSE Append(m, Entry(k, v))

MapDelete(m, k) == SelectSeq(m, LAMBDA e : e.id # k)

MapSize(m) == Len(m)

\* ---------------------------------------------------------------- state
VARIABLES
    wssListening,  \* this.wss still hands over connections
    now,           \* Date.now()
    clients,       \* this.clients: Map<string, WebSocket>
    readyState,    \* ws.readyState of every socket
    clientId,      \* the clientId each socket's handlers closed over
    appLogic,      \* this.appLogic: which AppLogic the server was built with
    state,         \* this.state: the AppLogic's state
    sent,          \* what ws.send put on each socket's wire, in order
    arrived,       \* the frames each socket's 'message' event delivered
    handled,       \* the contexts handleMessage got from each socket's handler
    helperCalls,   \* helper calls the AppLogic made so far
    connects,      \* handleConnect invocations made for each socket
    disconnects,   \* handleDisconnect invocations made by each socket's handlers
    deletes,       \* this.clients.delete calls made by each socket's handlers
    closeEvents,   \* 'close' events each socket emitted
    errorEvents,   \* 'error' events each socket emitted
    receiving,     \* the socket's receiver may still emit 'message'
    ev,            \* the event handler that ran last, what it called and sent
    atClose,       \* this.clients as close() found it
    config,        \* the WSClientConfig the page's WSClient was built with
    wsClient,      \* the fields of the WSClient
    browser,       \* the page: its WebSockets, their wires, its timers
    cev,           \* the WSClient operation that ran last and what it did
    apiCalls,      \* calls the page has made on the WSClient
    autoAttempts,  \* sockets timers asked for since a socket last opened
    disconnected,  \* the page called disconnect() and not connect() since
    chatState,     \* the ChatState the chatAppLogic callbacks are given
    chatNow,       \* Date.now() as chatAppLogic reads it
    chatEv,        \* the chatAppLogic callback that ran last and its helper calls
    chatCalls,     \* chatAppLogic callbacks invoked so far
    app            \* the App component: mounted or not, and its state

serverVars == <<wssListening, now, clients, readyState, clientId, appLogic,
                state, sent, arrived, handled, helperCalls, connects,
                disconnects, deletes, closeEvents, errorEvents, receiving, ev,
                atClose>>

clientVars == <<config, wsClient, browser, cev, apiCalls, autoAttempts,
                disconnected>>

chatVars == <<chatState, chatNow, chatEv, chatCalls>>

vars == <<serverVars, clientVars, chatVars, app>>

\* ------------------------------------------------------ routing helpers
Send(ws, data) == [ws |-> ws, data |-> data]

\* this.clients.forEach((ws, clientId) => { if (ws.readyState === OPEN)
\* ws.send(data) else warn }): the ws.send calls made from entry i on.
\* Mutant: the loop ends at the first socket that is not open.
RECURSIVE broadcastAllFromAborting(_, _, _, _)
broadcastAllFromAborting(cl, rs, data, i) ==
    IF i > Len(cl) THEN <<>>
    ELSE IF rs[cl[i].ws] = OPEN
         THEN <<Send(cl[i].ws, data)>> \o broadcastAllFromAborting(cl, rs, data, i + 1)
         ELSE <<>>

RECURSIVE broadcastAllFrom(_, _, _, _)
broadcastAllFrom(cl, rs, data, i) ==
    IF i > Len(cl) THEN <<>>
    ELSE IF rs[cl[i].ws] = OPEN
         THEN <<Send(cl[i].ws, data)>> \o broadcastAllFrom(cl, rs, data, i + 1)
         ELSE broadcastAllFrom(cl, rs, data, i + 1)

\* Mutant: the message is serialized again for every recipient, with the
\* recipient's socket stamped into it.
broadcastAllPerRecipient(cl, rs, message) ==
    LET all == broadcastAllFrom(cl, rs, JSONstringify(message), 1) IN
    [i \in 1..Len(all) |->
        Send(all[i].ws, JSONstringify(<<message, all[i].ws>>))]

broadcastAll(cl, rs, message) ==
    LET data == JSONstringify(message) IN broadcastAllFrom(cl, rs, data, 1)

\* Mutant: no readyState check before ws.send.
sendToUnchecked(cl, rs, id, message) ==
    LET ws == MapGet(cl, id) IN
    IF ws = NoWs THEN <<>> ELSE <<Send(ws, JSONstringify(message))>>

sendTo(cl, rs, id, message) ==
    LET ws == MapGet(cl, id) IN
    IF ws = NoWs THEN <<>>
    ELSE IF rs[ws] = OPEN THEN <<Send(ws, JSONstringify(message))>>
    ELSE <<>>

RECURSIVE broadcastExceptFrom(_, _, _, _, _)
broadcastExceptFrom(cl, rs, excludeClientId, data, i) ==
    IF i > Len(cl) THEN <<>>
    ELSE IF cl[i].id # excludeClientId /\ rs[cl[i].ws] = OPEN
         THEN <<Send(cl[i].ws, data)>>
              \o broadcastExceptFrom(cl, rs, excludeClientId, data, i + 1)
         ELSE broadcastExceptFrom(cl, rs, excludeClientId, data, i + 1)

\* Mutant: the excluded id is not compared.
broadcastExceptNoExclusion(cl, rs, excludeClientId, message) ==
    broadcastAll(cl, rs, message)

broadcastExcept(cl, rs, excludeClientId, message) ==
    LET data == JSONstringify(message) IN
    broadcastExceptFrom(cl, rs, excludeClientId, data, 1)

\* A call an AppLogic makes on its helpers (to is NoId for broadcastAll).
Call(op, to, msg) == [op |-> op, to |-> to, msg |-> msg]

\* createHelpers(): each helper forwards to the method of the same name.
\* The ws.send calls one helper call makes.
createHelpers(cl, rs, call) ==
    CASE call.op = "broadcastAll" -> broadcastAll(cl, rs, call.msg)
      [] call.op = "sendTo" -> sendTo(cl, rs, call.to, call.msg)
      [] call.op = "broadcastExcept" -> broadcastExcept(cl, rs, call.to, call.msg)

\* The calls of one callback, run in order: each with the sends it made.
RunCalls(cl, rs, calls) ==
    [i \in 1..Len(calls) |->
        [op |-> calls[i].op, to |-> calls[i].to, msg |-> calls[i].msg,
         sends |-> createHelpers(cl, rs, calls[i])]]

RECURSIVE AllSends(_)
AllSends(done) ==
    IF done = <<>> THEN <<>> ELSE Head(done).sends \o AllSends(Tail(done))

\* ws.send(data) on an open socket appends data to that socket's wire.
RECURSIVE Deliver(_, _)
Deliver(wire, sends) ==
    IF sends = <<>> THEN wire
    ELSE Deliver([wire EXCEPT ![Head(sends).ws] = Append(@, Head(sends).data)],
                 Tail(sends))

\* ------------------------------------------------------------ AppLogic
\* What one callback of an AppLogic did: the new state, the helper calls it
\* made in order, and whether it ended by throwing.
Did(st, calls, threw) == [state |-> st, calls |-> calls, threw |-> threw]

\* The AppLogic interface lets any implementation be plugged in.  Besides
\* testAppLogic, the model runs the server with an AppLogic about which
\* nothing is known but the interface: each of its callbacks makes up to
\* one helper call, of any helper, with any of the ids it was ever told or
\* one it was never told.
HelperMessage == SystemMessage("m")

AnyCall(ids) ==
    {Call("broadcastAll", NoId, HelperMessage)}
    \cup {Call(op, id, HelperMessage) :
            op \in {"sendTo", "broadcastExcept"},
            id \in ids \cup {Nonexistent}}

AppLogics == {"testAppLogic", "anyAppLogic"}

\* What a callback of the AppLogic may choose freely: nothing for
\* testAppLogic, the calls to make for the unknown one, which knows ids (a
\* call only while the run has room for one).
Picks(logic, ids, room) ==
    IF logic = "anyAppLogic" /\ room
    THEN {<<>>} \cup {<<k>> : k \in AnyCall(ids)}
    ELSE {<<>>}

\* -------------------------------------------------------- chatAppLogic
\* A JavaScript string the chat handler trims or measures is a sequence of
\* characters.
Anonymous == <<"A", "n", "o", "n", "y", "m", "o", "u", "s">>

MaxMessageLength == 500
MaxHistory == 100

IsWhiteSpace(ch) == ch \in {" ", "\t", "\n"}

RECURSIVE trimStart(_)
trimStart(str) ==
    IF str # <<>> /\ IsWhiteSpace(Head(str)) THEN trimStart(Tail(str)) ELSE str

RECURSIVE trimEnd(_)
trimEnd(str) ==
    IF str # <<>> /\ IsWhiteSpace(str[Len(str)])
    THEN trimEnd(SubSeq(str, 1, Len(str) - 1))
    ELSE str

\* String.prototype.trim()
trim(str) == trimEnd(trimStart(str))

\* User and ChatMessage of types.ts; ChatState of the chat logic.  users, a
\* Map keyed by clientId, is the sequence of its values in insertion order.
User(id, username, connectedAt) ==
    [clientId |-> id, username |-> username, connectedAt |-> connectedAt]

ChatMessage(username, text, timestamp, id) ==
    [username |-> username, text |-> text, timestamp |-> timestamp,
     clientId |-> id]

ChatState(users, messageHistory) ==
    [users |-> users, messageHistory |-> messageHistory]

chatCreateInitialState == ChatState(<<>>, <<>>)

HasUser(st, id) == \E i \in 1..Len(st.users) : st.users[i].clientId = id

UserOf(st, id) ==
    st.users[CHOOSE i \in 1..Len(st.users) : st.users[i].clientId = id]

\* state.users.set(user.clientId, user)
SetUser(users, user) ==
    IF \E i \in 1..Len(users) : users[i].clientId = user.clientId
    THEN [i \in 1..Len(users) |->
            IF users[i].clientId = user.clientId THEN user ELSE users[i]]
    ELSE Append(users, user)

\* The ServerMessages of the chat.
UserJoined(username) == Msg("userJoined", NoId, username)
UserLeft(username) == Msg("userLeft", NoId, username)
ChatMessageOut(chatMessage) == [type |-> "chatMessage", payload |-> chatMessage]

\* handleConnect: a user named 'Anonymous', connected at t = Date.now(),
\* and a welcome to the new client.
\* Mutant: the new user is announced to everybody as well.
chatHandleConnectAnnouncing(st, id, t) ==
    Did([st EXCEPT !.users = SetUser(@, User(id, Anonymous, t))],
        <<Call("sendTo", id, Welcome(id)),
          Call("broadcastAll", NoId, UserJoined(Anonymous))>>, FALSE)

chatHandleConnect(st, id, t) ==
    Did([st EXCEPT !.users = SetUser(@, User(id, Anonymous, t))],
        <<Call("sendTo", id, Welcome(id))>>, FALSE)

\* handleDisconnect: userLeft to all and the user deleted, if there is one.
\* Mutant: a client without user is announced as 'Anonymous'.
chatHandleDisconnectAnnouncingUnknown(st, id) ==
    IF HasUser(st, id)
    THEN Did([st EXCEPT !.users = SelectSeq(@, LAMBDA u : u.clientId # id)],
             <<Call("broadcastAll", NoId, UserLeft(UserOf(st, id).username))>>,
             FALSE)
    ELSE Did(st, <<Call("broadcastAll", NoId, UserLeft(Anonymous))>>, FALSE)

\* Mutant: the user is announced as gone but stays in the map.
chatHandleDisconnectKeepsUser(st, id) ==
    IF HasUser(st, id)
    THEN Did(st, <<Call("broadcastAll", NoId, UserLeft(UserOf(st, id).username))>>,
             FALSE)
    ELSE Did(st, <<>>, FALSE)

chatHandleDisconnect(st, id) ==
    IF HasUser(st, id)
    THEN Did([st EXCEPT !.users = SelectSeq(@, LAMBDA u : u.clientId # id)],
             <<Call("broadcastAll", NoId, UserLeft(UserOf(st, id).username))>>,
             FALSE)
    ELSE Did(st, <<>>, FALSE)

\* message.payload.username.trim() || 'Anonymous'
NewUsername(message) ==
    IF trim(message.text) = <<>> THEN Anonymous ELSE trim(message.text)

\* handleSetUsername: a TypeError without payload; else the name is stored
\* and userJoined broadcast when 'Anonymous' took another name.
\* Mutant: every change of name is announced.
handleSetUsernameAnnouncingAll(st, id, message) ==
    IF ~HasUser(st, id) THEN Did(st, <<>>, FALSE)
    ELSE IF ~message.hasPayload THEN Did(st, <<>>, TRUE)
    ELSE LET newUsername == NewUsername(message)
             oldUsername == UserOf(st, id).username
             st1 == [st EXCEPT !.users =
                        SetUser(@, [UserOf(st, id) EXCEPT !.username = newUsername])]
         IN IF oldUsername # newUsername
            THEN Did(st1, <<Call("broadcastAll", NoId, UserJoined(newUsername))>>,
                     FALSE)
            ELSE Did(st1, <<>>, FALSE)

handleSetUsername(st, id, message) ==
    IF ~HasUser(st, id) THEN Did(st, <<>>, FALSE)
    ELSE IF ~message.hasPayload THEN Did(st, <<>>, TRUE)
    ELSE LET newUsername == NewUsername(message)
             oldUsername == UserOf(st, id).username
             st1 == [st EXCEPT !.users =
                        SetUser(@, [UserOf(st, id) EXCEPT !.username = newUsername])]
         IN IF oldUsername = Anonymous /\ newUsername # Anonymous
            THEN Did(st1, <<Call("broadcastAll", NoId, UserJoined(newUsername))>>,
                     FALSE)
            ELSE Did(st1, <<>>, FALSE)

\* state.messageHistory.push(chatMessage); if (length > 100) shift()
\* Mutant: a full history drops the new message (pop() for shift()).
PushMessageDroppingNewest(history, chatMessage) ==
    LET pushed == Append(history, chatMessage) IN
    IF Len(pushed) > MaxHistory THEN history ELSE pushed

PushMessage(history, chatMessage) ==
    LET pushed == Append(history, chatMessage) IN
    IF Len(pushed) > MaxHistory THEN Tail(pushed) ELSE pushed

\* handleSendMessage: a TypeError without payload; an error to the sender
\* for an empty or too long text; else the message, stamped t = Date.now(),
\* is pushed to the history and broadcast.
\* Mutant: the text is tested for emptiness before it is trimmed.
handleSendMessageBlankAccepted(st, id, message, t) ==
    IF ~HasUser(st, id) THEN Did(st, <<>>, FALSE)
    ELSE IF ~message.hasPayload THEN Did(st, <<>>, TRUE)
    ELSE LET text == trim(message.text) IN
         IF message.text = <<>>
         THEN Did(st, <<Call("sendTo", id,
                             ErrorMessage("Message cannot be empty"))>>, FALSE)
         ELSE IF Len(text) > MaxMessageLength
         THEN Did(st, <<Call("sendTo", id,
                             ErrorMessage("Message too long (max 500 characters)"))>>,
                  FALSE)
         ELSE LET chatMessage == ChatMessage(UserOf(st, id).username, text, t, id)
              IN Did([st EXCEPT !.messageHistory = PushMessage(@, chatMessage)],
                     <<Call("broadcastAll", NoId, ChatMessageOut(chatMessage))>>,
                     FALSE)

\* Mutant: the text goes out as it came in.
handleSendMessageUntrimmed(st, id, message, t) ==
    IF ~HasUser(st, id) THEN Did(st, <<>>, FALSE)
    ELSE IF ~message.hasPayload THEN Did(st, <<>>, TRUE)
    ELSE LET text == trim(message.text) IN
         IF text = <<>>
         THEN Did(st, <<Call("sendTo", id,
                             ErrorMessage("Message cannot be empty"))>>, FALSE)
         ELSE IF Len(text) > MaxMessageLength
         THEN Did(st, <<Call("sendTo", id,
                             ErrorMessage("Message too long (max 500 characters)"))>>,
                  FALSE)
         ELSE LET chatMessage ==
                      ChatMessage(UserOf(st, id).username, message.text, t, id)
              IN Did([st EXCEPT !.messageHistory = PushMessage(@, chatMessage)],
                     <<Call("broadcastAll", NoId, ChatMessageOut(chatMessage))>>,
                     FALSE)

handleSendMessage(st, id, message, t) ==
    IF ~HasUser(st, id) THEN Did(st, <<>>, FALSE)
    ELSE IF ~message.hasPayload THEN Did(st, <<>>, TRUE)
    ELSE LET text == trim(message.text) IN
         IF text = <<>>
         THEN Did(st, <<Call("sendTo", id,
                             ErrorMessage("Message cannot be empty"))>>, FALSE)
         ELSE IF Len(text) > MaxMessageLength
         THEN Did(st, <<Call("sendTo", id,
                             ErrorMessage("Message too long (max 500 characters)"))>>,
                  FALSE)
         ELSE LET chatMessage == ChatMessage(UserOf(st, id).username, text, t, id)
              IN Did([st EXCEPT !.messageHistory = PushMessage(@, chatMessage)],
                     <<Call("broadcastAll", NoId, ChatMessageOut(chatMessage))>>,
                     FALSE)

\* handleMessage: nothing for a client without user; a TypeError reading
\* .type of null; else by message.type.
chatHandleMessage(st, id, message, t) ==
    IF ~HasUser(st, id) THEN Did(st, <<>>, FALSE)
    ELSE IF message.kind = "null" THEN Did(st, <<>>, TRUE)
    ELSE IF message.type = "setUsername" THEN handleSetUsername(st, id, message)
    ELSE IF message.type = "sendMessage" THEN handleSendMessage(st, id, message, t)
    ELSE Did(st, <<Call("sendTo", id, ErrorMessage("Unknown message type"))>>,
             FALSE)


\* ------------------------------------------- the AppLogic of the server
\* The characters of the texts the modelled frames carry.
Characters(text) ==
    CASE text = "hi" -> <<"h", "i">>
      [] text = "Al" -> <<"A", "l">>
      [] OTHER -> <<>>

\* The parsed message as chatAppLogic reads it.
ChatMessageOf(message) == [message EXCEPT !.text = Characters(@)]

\* WSServer calls the callbacks of the AppLogic it was built with.  For
\* chatAppLogic, pick holds what Date.now() returns to the callback.
createInitialState(logic) ==
    IF logic = "chatAppLogic" THEN chatCreateInitialState ELSE <<>>

\* testAppLogic keeps state.connections, a list of client ids.
handleConnect(logic, st, id, pick) ==
    IF logic = "testAppLogic"
    THEN Did(Append(st, id), <<Call("sendTo", id, Welcome(id))>>, FALSE)
    ELSE IF logic = "chatAppLogic" THEN chatHandleConnect(st, id, pick[1])
    ELSE Did(st, pick, FALSE)

handleDisconnect(logic, st, id, pick) ==
    IF logic = "testAppLogic"
    THEN Did(SelectSeq(st, LAMBDA x : x # id), <<>>, FALSE)
    ELSE IF logic = "chatAppLogic" THEN chatHandleDisconnect(st, id)
    ELSE Did(st, pick, FALSE)

\* testAppLogic.handleMessage reads message.type (a TypeError on null) and,
\* for sendMessage, message.payload.text (a TypeError without payload).
handleMessage(logic, st, id, message, pick) ==
    IF logic = "testAppLogic"
    THEN IF message.kind = "null" THEN Did(st, <<>>, TRUE)
         ELSE IF message.type = "sendMessage"
              THEN IF ~message.hasPayload THEN Did(st, <<>>, TRUE)
                   ELSE Did(st, <<Call("broadcastAll", NoId,
                                       SystemMessage("echo:" \o message.text))>>,
                            FALSE)
              ELSE Did(st, <<Call("sendTo", id,
                                  ErrorMessage("Unknown message type"))>>, FALSE)
    ELSE IF logic = "chatAppLogic"
    THEN chatHandleMessage(st, id, ChatMessageOf(message), pick[1])
    ELSE Did(st, pick, FALSE)

\* ------------------------------------------------------------- WSClient
ClientSockets == 1..MaxSockets

\* WebSocket.readyState in the browser; ABSENT marks a socket not created yet.
CONNECTING == "CONNECTING"
ABSENT == "ABSENT"

\* An optional property of a config object: absent, or given with a value.
Absent == <<>>
Given(x) == <<x>>

\* x || d for a number x: the default also replaces a given 0.
OrDefault(x, d) == IF x = Absent THEN d ELSE IF x[1] = 0 THEN d ELSE x[1]

\* A number that may be Infinity: Infinity, or Finite(n).
Infinity == <<>>
Finite(n) == <<n>>

\* config.maxReconnectAttempts || Infinity
OrInfinity(x) ==
    IF x = Absent THEN Infinity ELSE IF x[1] = 0 THEN Infinity ELSE Finite(x[1])

\* n >= lim
AtLeast(n, lim) == lim # Infinity /\ n >= lim[1]

Min(a, b) == IF a <= b THEN a ELSE b

DefaultReconnectDelay == 3000
DefaultMaxReconnectDelay == 30000
OpenReconnectDelay == 3000

\* The URL resolveWebSocketUrl derives from the page's location, and one
\* new WebSocket() rejects with a SyntaxError.
LocationUrl == "ws://localhost:3000"
BadUrl == "not a url"

resolveWebSocketUrl(overrideUrl) ==
    IF overrideUrl # Absent THEN overrideUrl[1] ELSE LocationUrl

WSClientConfig(url, initialReconnectDelay, maxReconnectDelay, maxReconnectAttempts) ==
    [url |-> url,
     initialReconnectDelay |-> initialReconnectDelay,
     maxReconnectDelay |-> maxReconnectDelay,
     maxReconnectAttempts |-> maxReconnectAttempts]

NoConfig == WSClientConfig(Absent, Absent, Absent, Absent)

Configs ==
    {WSClientConfig(u, i, m, a) :
        u \in {Absent, Given(BadUrl)},
        i \in {Given(0), Given(1000)},
        m \in {Absent, Given(5000)},
        a \in {Given(0), Given(1)}}

\* ClientMessage objects the page sends.
ClientMsg(type, text) == [type |-> type, text |-> text]
SetUsername == ClientMsg("setUsername", "Al")
SendMessage == ClientMsg("sendMessage", "hi")
ClientMsgs == {SetUsername, SendMessage}

\* WSClientCallbacks: a callback is not registered, or is one that leaves
\* the WSClient alone, or (for 'open', as App's does) one that calls send.
NoCallback == "none"
PlainCallback == "plain"
SendingCallback == "sending"
Events == {"open", "close", "error", "message"}

CallbacksFor(event) ==
    IF event = "open" THEN {PlainCallback, SendingCallback} ELSE {PlainCallback}

NoTimer == 0

\* The fields of a WSClient as its constructor leaves them.
WSClientNew(cfg) ==
    [ws |-> NoWs,
     url |-> resolveWebSocketUrl(cfg.url),
     callbacks |-> [e \in Events |-> NoCallback],
     reconnectAttempts |-> 0,
     reconnectDelay |-> OrDefault(cfg.initialReconnectDelay, DefaultReconnectDelay),
     maxReconnectDelay |-> OrDefault(cfg.maxReconnectDelay, DefaultMaxReconnectDelay),
     maxReconnectAttempts |-> OrInfinity(cfg.maxReconnectAttempts),
     reconnectTimeout |-> NoTimer,
     isManualClose |-> FALSE,
     messageQueue |-> <<>>]

\* The page before it has created a socket or set a timer.  hung: a handler
\* of the page never returned.
BrowserNew ==
    [readyState |-> [s \in ClientSockets |-> ABSENT],
     created |-> 0,
     wire |-> [s \in ClientSockets |-> <<>>],
     timers |-> {},
     timerCount |-> 0,
     hung |-> FALSE]

\* A pending timer: its id, its delay, and the value reconnectAttempts had
\* when scheduleReconnect set it.
Timer(id, delay, attempt) == [id |-> id, delay |-> delay, attempt |-> attempt]

\* One thing an operation did: a WebSocket created, closed or written to, a
\* message queued, a timer set or cleared, a callback run.
Act(act, on, arg) == [act |-> act, on |-> on, arg |-> arg]

\* The WSClient c in the page b, with what the running operation did so far.
World(c, b, log) == [c |-> c, b |-> b, log |-> log]

Did1(w, act, on, arg) == [w EXCEPT !.log = Append(@, Act(act, on, arg))]

\* this.ws?.readyState
ReadyStateOf(w) == IF w.c.ws = NoWs THEN ABSENT ELSE w.b.readyState[w.c.ws]

\* scheduleReconnect(): give up at maxReconnectAttempts, else count the
\* attempt, set the timer with the capped delay and double the delay.
scheduleReconnect(w) ==
    IF AtLeast(w.c.reconnectAttempts, w.c.maxReconnectAttempts) THEN w
    ELSE LET attempt == w.c.reconnectAttempts + 1
             delay == Min(w.c.reconnectDelay, w.c.maxReconnectDelay)
             id == w.b.timerCount + 1
         IN Did1([w EXCEPT !.c.reconnectAttempts = attempt,
                           !.c.reconnectTimeout = id,
                           !.c.reconnectDelay = @ * 2,
                           !.b.timers = @ \cup {Timer(id, delay, attempt)},
                           !.b.timerCount = id],
                 "setTimeout", id, delay)

\* Whether connect() goes on to create a socket.
Connects(w) == ReadyStateOf(w) \notin {OPEN, CONNECTING}

\* Mutant: connect() returns early only for an OPEN socket.
connectWhileConnecting(w) ==
    IF ReadyStateOf(w) = OPEN THEN w
    ELSE LET w1 == [w EXCEPT !.c.isManualClose = FALSE] IN
         IF w1.c.url = BadUrl THEN scheduleReconnect(w1)
         ELSE LET s == w1.b.created + 1 IN
              Did1([w1 EXCEPT !.c.ws = s,
                              !.b.created = s,
                              !.b.readyState =
                                  [x \in ClientSockets |->
                                      IF x = s THEN CONNECTING ELSE @[x]]],
                   "new WebSocket", s, w1.c.url)

\* connect(): nothing while the socket is OPEN or CONNECTING; else a new
\* WebSocket with its handlers, or scheduleReconnect() when the constructor
\* throws (it does for a URL it cannot parse).
connect(w) ==
    IF ~Connects(w) THEN w
    ELSE LET w1 == [w EXCEPT !.c.isManualClose = FALSE] IN
         IF w1.c.url = BadUrl THEN scheduleReconnect(w1)
         ELSE LET s == w1.b.created + 1 IN
              Did1([w1 EXCEPT !.c.ws = s,
                              !.b.created = s,
                              !.b.readyState =
                                  [x \in ClientSockets |->
                                      IF x = s THEN CONNECTING ELSE @[x]]],
                   "new WebSocket", s, w1.c.url)

\* ws.close() in the browser: a socket that is CONNECTING or OPEN becomes
\* CLOSING.
CloseSocket(b, s) ==
    [b EXCEPT !.readyState[s] = IF @ \in {CONNECTING, OPEN} THEN CLOSING ELSE @]

\* Mutant: disconnect() drops the socket without closing it.
disconnectWithoutClose(w) ==
    LET w1 == [w EXCEPT !.c.isManualClose = TRUE]
        w2 == IF w1.c.reconnectTimeout # NoTimer
              THEN Did1([w1 EXCEPT
                            !.b.timers = {t \in @ : t.id # w1.c.reconnectTimeout},
                            !.c.reconnectTimeout = NoTimer],
                        "clearTimeout", w1.c.reconnectTimeout, 0)
              ELSE w1
    IN [w2 EXCEPT !.c.ws = NoWs]

\* disconnect(): manual close, clear the reconnect timer, close and drop
\* the socket.
disconnect(w) ==
    LET w1 == [w EXCEPT !.c.isManualClose = TRUE]
        w2 == IF w1.c.reconnectTimeout # NoTimer
              THEN Did1([w1 EXCEPT
                            !.b.timers = {t \in @ : t.id # w1.c.reconnectTimeout},
                            !.c.reconnectTimeout = NoTimer],
                        "clearTimeout", w1.c.reconnectTimeout, 0)
              ELSE w1
    IN IF w2.c.ws # NoWs
       THEN Did1([w2 EXCEPT !.b = CloseSocket(@, w2.c.ws), !.c.ws = NoWs],
                 "close", w2.c.ws, 0)
       ELSE w2

\* Mutant: a message that cannot be sent is dropped.
sendDropping(w, message) ==
    IF ReadyStateOf(w) # OPEN THEN w
    ELSE Did1([w EXCEPT !.b.wire[w.c.ws] = Append(@, JSONstringify(message))],
              "send", w.c.ws, JSONstringify(message))

\* send(message): queue it unless the socket is OPEN, else write it.
send(w, message) ==
    IF ReadyStateOf(w) # OPEN
    THEN Did1([w EXCEPT !.c.messageQueue = Append(@, message)],
              "queue", NoWs, message)
    ELSE Did1([w EXCEPT !.b.wire[w.c.ws] = Append(@, JSONstringify(message))],
              "send", w.c.ws, JSONstringify(message))

\* while (this.messageQueue.length > 0) { msg = shift(); if (msg)
\* this.send(msg) }.  A send that queues the message again leaves the
\* loop where it was: it never ends.
RECURSIVE flushQueue(_)
flushQueue(w) ==
    IF w.c.messageQueue = <<>> THEN w
    ELSE IF ReadyStateOf(w) # OPEN THEN [w EXCEPT !.b.hung = TRUE]
    ELSE flushQueue(send([w EXCEPT !.c.messageQueue = Tail(@)],
                         Head(w.c.messageQueue)))

\* this.callbacks.onX?.(...): a registered callback runs; App's 'open'
\* callback sends the user name.
RunCallback(w, event, arg) ==
    LET cb == w.c.callbacks[event] IN
    IF cb = NoCallback THEN w
    ELSE LET w1 == Did1(w, "callback", event, arg) IN
         IF cb = SendingCallback THEN send(w1, SetUsername) ELSE w1

\* ws.onopen of socket s: reset the backoff, flush the queue, then the
\* 'open' callback.
onopen(w, s) ==
    LET w1 == [w EXCEPT !.c.reconnectAttempts = 0,
                        !.c.reconnectDelay = OpenReconnectDelay]
        w2 == flushQueue(w1)
    IN IF w2.b.hung THEN w2 ELSE RunCallback(w2, "open", 0)

\* ws.onclose of socket s: the 'close' callback, then scheduleReconnect()
\* unless the close was manual.
onclose(w, s) ==
    LET w1 == RunCallback(w, "close", 0) IN
    IF ~w1.c.isManualClose THEN scheduleReconnect(w1) ELSE w1

\* ws.onerror of socket s: the 'error' callback.
onerror(w, s) == RunCallback(w, "error", 0)

\* ws.onmessage of socket s: the 'message' callback with the parsed data,
\* nothing when JSON.parse throws.
onmessage(w, s, data) ==
    LET p == JSONparse(data) IN
    IF p.ok THEN RunCallback(w, "message", p.value) ELSE w

\* on(event, callback)
on(w, event, callback) == [w EXCEPT !.c.callbacks[event] = callback]

\* What the WSClient operation that ran last was and did.
CEv(op, arg, log) == [op |-> op, arg |-> arg, log |-> log]

NoCEv == CEv("none", 0, <<>>)

\* ------------------------------------------------------------ the events
\* A callback invocation: which one, for which id, with which message.
Cb(cb, id, message) == [cb |-> cb, id |-> id, message |-> message]

Ev(kind, ws, id, frame, cbs, calls) ==
    [kind |-> kind, ws |-> ws, id |-> id, frame |-> frame, cbs |-> cbs,
     calls |-> calls]

NoEv == Ev("none", NoWs, NoId, "", <<>>, <<>>)

\* The server as its constructor leaves it, built with the AppLogic logic.
WSServerNew(logic) ==
    /\ wssListening = TRUE
    /\ now = 0
    /\ clients = <<>>
    /\ readyState = [c \in Sockets |-> PENDING]
    /\ clientId = [c \in Sockets |-> NoId]
    /\ appLogic = logic
    /\ state = createInitialState(logic)
    /\ sent = [c \in Sockets |-> <<>>]
    /\ arrived = [c \in Sockets |-> <<>>]
    /\ handled = [c \in Sockets |-> <<>>]
    /\ helperCalls = 0
    /\ connects = [c \in Sockets |-> 0]
    /\ disconnects = [c \in Sockets |-> 0]
    /\ deletes = [c \in Sockets |-> 0]
    /\ closeEvents = [c \in Sockets |-> 0]
    /\ errorEvents = [c \in Sockets |-> 0]
    /\ receiving = [c \in Sockets |-> FALSE]
    /\ ev = NoEv
    /\ atClose = <<>>

\* A page that has built its WSClient with the config cfg.
PageNew(cfg) ==
    /\ config = cfg
    /\ wsClient = WSClientNew(cfg)
    /\ browser = BrowserNew
    /\ cev = NoCEv
    /\ apiCalls = 0
    /\ autoAttempts = 0
    /\ disconnected = FALSE

\* The App component: whether it is mounted, localStorage's chatUsername,
\* its username and connected state, the username its 'open' callback closed
\* over, and the [username, connected] its username effect last ran with.
AppState(mounted, stored, username, connected, openUsername, deps) ==
    [mounted |-> mounted, stored |-> stored, username |-> username,
     connected |-> connected, openUsername |-> openUsername, deps |-> deps]

\* Before App is rendered, stored being what localStorage holds.
AppUnmounted(stored) == AppState(FALSE, stored, "", FALSE, "", <<"", FALSE>>)

\* What a chatAppLogic callback was called with and did.
ChatEv(cb, id, message, calls, threw) ==
    [cb |-> cb, id |-> id, message |-> message, calls |-> calls, threw |-> threw]

NoChatMessage == JSValue("none", Undefined, FALSE, <<>>)

NoChatEv == ChatEv("none", NoId, NoChatMessage, <<>>, FALSE)

\* A chat whose state is st when Date.now() is t.
ChatNew(st, t) ==
    /\ chatState = st
    /\ chatNow = t
    /\ chatEv = NoChatEv
    /\ chatCalls = 0

Init ==
    /\ \E logic \in AppLogics : WSServerNew(logic)
    /\ PageNew(NoConfig)
    /\ ChatNew(chatCreateInitialState, 0)
    /\ app = AppUnmounted("")

\* What one event handler of WSServer did: the registry and the AppLogic
\* state it left, the callbacks it invoked, the helper calls made (with
\* their sends) and how often it called this.clients.delete.
Effect(cl, st, cbs, done, dels) ==
    [clients |-> cl, state |-> st, cbs |-> cbs, done |-> done, deletes |-> dels]

\* this.wss.on('connection', (ws) => { ... }) for socket ws, t and r being
\* what Date.now() and Math.random() return: register, then handleConnect.
\* Mutant: handleConnect runs before this.clients.set.
connectionHandlerNotifyFirst(logic, cl, rs, st, ws, t, r, pick) ==
    LET id == generateClientId(t, r)
        h == handleConnect(logic, st, id, pick)
    IN Effect(MapSet(cl, id, ws), h.state, <<Cb("handleConnect", id, NoValue)>>,
              RunCalls(cl, rs, h.calls), 0)

connectionHandler(logic, cl, rs, st, ws, t, r, pick) ==
    LET id == generateClientId(t, r)
        cl1 == MapSet(cl, id, ws)
        h == handleConnect(logic, st, id, pick)
    IN Effect(cl1, h.state, <<Cb("handleConnect", id, NoValue)>>,
              RunCalls(cl1, rs, h.calls), 0)

\* ws.on('message', (data) => { try { parse; handleMessage } catch { sendTo
\* error } }): the catch takes a SyntaxError of JSON.parse and whatever
\* handleMessage throws alike.
InvalidFormat == ErrorMessage("Invalid message format")

\* Mutant: frames of a socket that is no longer open are not dispatched.
messageHandlerOpenOnly(logic, cl, rs, st, id, data, pick) ==
    LET p == JSONparse(data)
        ws == MapGet(cl, id)
    IN
    IF p.ok /\ ws # NoWs /\ rs[ws] = OPEN
    THEN LET h == handleMessage(logic, st, id, p.value, pick)
             calls == IF h.threw
                      THEN Append(h.calls, Call("sendTo", id, InvalidFormat))
                      ELSE h.calls
         IN Effect(cl, h.state, <<Cb("handleMessage", id, p.value)>>,
                   RunCalls(cl, rs, calls), 0)
    ELSE Effect(cl, st, <<>>,
                RunCalls(cl, rs, <<Call("sendTo", id, InvalidFormat)>>), 0)

messageHandler(logic, cl, rs, st, id, data, pick) ==
    LET p == JSONparse(data) IN
    IF p.ok
    THEN LET h == handleMessage(logic, st, id, p.value, pick)
             calls == IF h.threw
                      THEN Append(h.calls, Call("sendTo", id, InvalidFormat))
                      ELSE h.calls
         IN Effect(cl, h.state, <<Cb("handleMessage", id, p.value)>>,
                   RunCalls(cl, rs, calls), 0)
    ELSE Effect(cl, st, <<>>,
                RunCalls(cl, rs, <<Call("sendTo", id, InvalidFormat)>>), 0)

\* ws.on('close', () => { this.clients.delete(clientId); handleDisconnect }).
\* Mutant: handleDisconnect runs before this.clients.delete.
closeHandlerNotifyFirst(logic, cl, rs, st, id, pick) ==
    LET h == handleDisconnect(logic, st, id, pick)
    IN Effect(MapDelete(cl, id), h.state, <<Cb("handleDisconnect", id, NoValue)>>,
              RunCalls(cl, rs, h.calls), 1)

\* Mutant: the 'close' handler leaves the registry entry in place.
closeHandlerKeepsEntry(logic, cl, rs, st, id, pick) ==
    LET h == handleDisconnect(logic, st, id, pick)
    IN Effect(cl, h.state, <<Cb("handleDisconnect", id, NoValue)>>,
              RunCalls(cl, rs, h.calls), 0)

closeHandler(logic, cl, rs, st, id, pick) ==
    LET cl1 == MapDelete(cl, id)
        h == handleDisconnect(logic, st, id, pick)
    IN Effect(cl1, h.state, <<Cb("handleDisconnect", id, NoValue)>>,
              RunCalls(cl1, rs, h.calls), 1)

\* Mutant: the 'error' handler cleans up as the 'close' handler does.
errorHandlerCleansUp(logic, cl, rs, st, id, pick) ==
    closeHandler(logic, cl, rs, st, id, pick)

\* Mutant: the 'error' handler replaces this.state by a fresh one.
errorHandlerResetsState(logic, cl, rs, st, id, pick) ==
    Effect(cl, createInitialState(logic), <<>>, <<>>, 0)

\* ws.on('error', (error) => { console.error(...) }): it only logs.
errorHandler(logic, cl, rs, st, id, pick) == Effect(cl, st, <<>>, <<>>, 0)

\* The number of callbacks cb among cbs.
Count(cbs, cb) == Len(SelectSeq(cbs, LAMBDA x : x.cb = cb))

\* The handleMessage invocations among cbs: the context each one got.
Context(id, message) == [clientId |-> id, message |-> message]

RECURSIVE Messages(_)
Messages(cbs) ==
    IF cbs = <<>> THEN <<>>
    ELSE IF Head(cbs).cb = "handleMessage"
         THEN <<Context(Head(cbs).id, Head(cbs).message)>> \o Messages(Tail(cbs))
         ELSE Messages(Tail(cbs))

\* An event of socket c ran its handler with effect e.
Apply(c, e) ==
    /\ clients' = e.clients
    /\ state' = e.state
    /\ sent' = Deliver(sent, AllSends(e.done))
    /\ connects' = [connects EXCEPT ![c] = @ + Count(e.cbs, "handleConnect")]
    /\ disconnects' = [disconnects EXCEPT ![c] = @ + Count(e.cbs, "handleDisconnect")]
    /\ handled' = [handled EXCEPT ![c] = @ \o Messages(e.cbs)]
    /\ helperCalls' = helperCalls + Len(e.done)
    /\ deletes' = [deletes EXCEPT ![c] = @ + e.deletes]

RECURSIVE SumUpTo(_, _)
SumUpTo(f, n) == IF n = 0 THEN 0 ELSE f[n] + SumUpTo(f, n - 1)

\* The sum of f over all sockets.
Total(f) == SumUpTo(f, MaxConns)

FramesArrived == Total([c \in Sockets |-> Len(arrived[c])])

Accepted == Cardinality({c \in Sockets : readyState[c] # PENDING})

\* What the run has taken so far of the transport's events and of the
\* unknown AppLogic's helper calls.
Load ==
    Accepted + FramesArrived + Total(errorEvents)
    + IF appLogic = "anyAppLogic" THEN helperCalls ELSE 0

\* The run has room for n events more and for the free helper calls of pick.
Room(n, pick) ==
    Load + n + (IF appLogic = "anyAppLogic" THEN Len(pick) ELSE 0) <= MaxLoad

\* The largest value Math.random() has returned so far.
RECURSIVE LargestDraw(_)
LargestDraw(n) ==
    IF n = 0 THEN 0
    ELSE LET rest == LargestDraw(n - 1)
             mine == IF clientId[n] = NoId THEN 0 ELSE clientId[n][2]
         IN IF mine > rest THEN mine ELSE rest

\* The transport hands over the open socket c; Date.now() returns t, what
\* it returned before or the next value, and Math.random() returns r.  The
\* values of Math.random() are interchangeable, so a draw unlike every
\* earlier one is numbered next after the largest.
OnConnection(c, t, r, pick) ==
    /\ wssListening
    /\ Room(1, pick)
    /\ t \in {now, now + 1} \cap (0..MaxClock)
    /\ r <= LargestDraw(MaxConns) + 1
    /\ now' = t
    /\ readyState[c] = PENDING
    /\ \A d \in Sockets : d < c => readyState[d] # PENDING
    /\ readyState' = [readyState EXCEPT ![c] = OPEN]
    /\ receiving' = [receiving EXCEPT ![c] = TRUE]
    /\ clientId' = [clientId EXCEPT ![c] = generateClientId(t, r)]
    /\ LET e == connectionHandler(appLogic, clients, readyState', state, c,
                                  t, r, pick)
       IN /\ Apply(c, e)
          /\ ev' = Ev("connection", c, clientId'[c], "", e.cbs, e.done)
    /\ UNCHANGED <<wssListening, appLogic, arrived, closeEvents, errorEvents,
                   atClose>>
    /\ UNCHANGED <<clientVars, chatVars, app>>

\* Socket c's receiver emits 'message' with the frame data.  A socket the
\* server asked to close stays CLOSING with a live receiver until the peer
\* answers, so frames still arrive then.
OnMessage(c, data, pick) ==
    /\ receiving[c]
    /\ Room(1, pick)
    /\ arrived' = [arrived EXCEPT ![c] = Append(@, data)]
    /\ LET e == messageHandler(appLogic, clients, readyState, state,
                               clientId[c], data, pick)
       IN /\ Apply(c, e)
          /\ ev' = Ev("message", c, clientId[c], data, e.cbs, e.done)
    /\ UNCHANGED <<wssListening, now, readyState, clientId, appLogic,
                   closeEvents, errorEvents, receiving, atClose>>
    /\ UNCHANGED <<clientVars, chatVars, app>>

\* The peer's close frame arrives: the socket answers it and is CLOSING
\* until the connection is torn down; its receiver emits nothing more.
PeerClosing(c) ==
    /\ readyState[c] \in {OPEN, CLOSING}
    /\ receiving[c]
    /\ readyState' = [readyState EXCEPT ![c] = CLOSING]
    /\ receiving' = [receiving EXCEPT ![c] = FALSE]
    /\ ev' = NoEv
    /\ UNCHANGED <<wssListening, now, clients, clientId, appLogic, state, sent,
                   arrived, handled, helperCalls, connects, disconnects,
                   deletes, closeEvents, errorEvents, atClose>>
    /\ UNCHANGED <<clientVars, chatVars, app>>

\* Socket c emits 'close', once, when it becomes CLOSED.
OnClose(c, pick) ==
    /\ readyState[c] \in {OPEN, CLOSING}
    /\ pick # <<>> => Room(0, pick)
    /\ readyState' = [readyState EXCEPT ![c] = CLOSED]
    /\ receiving' = [receiving EXCEPT ![c] = FALSE]
    /\ closeEvents' = [closeEvents EXCEPT ![c] = @ + 1]
    /\ LET e == closeHandler(appLogic, clients, readyState', state,
                             clientId[c], pick)
       IN /\ Apply(c, e)
          /\ ev' = Ev("close", c, clientId[c], "", e.cbs, e.done)
    /\ UNCHANGED <<wssListening, now, clientId, appLogic, arrived, errorEvents,
                   atClose>>
    /\ UNCHANGED <<clientVars, chatVars, app>>

\* Socket c emits 'error', before or after its 'close'.  The transport
\* gives up the connection it reports an error for: an open socket becomes
\* CLOSING and its receiver stops.
OnError(c) ==
    /\ readyState[c] # PENDING
    /\ Room(1, <<>>)
    /\ readyState' = [readyState EXCEPT ![c] = IF @ = OPEN THEN CLOSING ELSE @]
    /\ receiving' = [receiving EXCEPT ![c] = FALSE]
    /\ errorEvents' = [errorEvents EXCEPT ![c] = @ + 1]
    /\ LET e == errorHandler(appLogic, clients, readyState', state,
                             clientId[c], <<>>)
       IN /\ Apply(c, e)
          /\ ev' = Ev("error", c, clientId[c], "", e.cbs, e.done)
    /\ UNCHANGED <<wssListening, now, clientId, appLogic, arrived, closeEvents,
                   atClose>>
    /\ UNCHANGED <<clientVars, chatVars, app>>

\* ws.close() on every registered socket: an open one becomes CLOSING.
\* Mutant: only the first registered socket is closed.
closeAllFromFirstOnly(cl, rs, i) ==
    IF i > Len(cl) THEN rs
    ELSE [rs EXCEPT ![cl[i].ws] = IF @ = OPEN THEN CLOSING ELSE @]

RECURSIVE closeAllFrom(_, _, _)
closeAllFrom(cl, rs, i) ==
    IF i > Len(cl) THEN rs
    ELSE closeAllFrom(cl, [rs EXCEPT ![cl[i].ws] = IF @ = OPEN THEN CLOSING ELSE @],
                      i + 1)

\* close(): this.clients.forEach((ws) => ws.close()); this.wss.close().
Close ==
    /\ wssListening
    /\ readyState' = closeAllFrom(clients, readyState, 1)
    /\ wssListening' = FALSE
    /\ ev' = Ev("shutdown", NoWs, NoId, "", <<>>, <<>>)
    /\ atClose' = clients
    /\ UNCHANGED <<now, clients, clientId, appLogic, state, sent, arrived,
                   handled, helperCalls, connects, disconnects, deletes,
                   closeEvents, errorEvents, receiving>>
    /\ UNCHANGED <<clientVars, chatVars, app>>

\* The ids the AppLogic's callbacks were told so far.
KnownIds == {clientId[c] : c \in Sockets} \ {NoId}

HasRoom(n) == Load + n <= MaxLoad

Next ==
    \/ \E c \in {x \in Sockets : readyState[x] = PENDING},
          t \in {now, now + 1} \cap (0..MaxClock), r \in 1..MaxRnd :
          \E pick \in Picks(appLogic, KnownIds \cup {generateClientId(t, r)},
                            HasRoom(2)) :
              OnConnection(c, t, r, pick)
    \/ \E c \in {x \in Sockets : receiving[x]}, data \in Frames,
          pick \in Picks(appLogic, KnownIds, HasRoom(2)) :
          OnMessage(c, data, pick)
    \/ \E c \in Sockets : PeerClosing(c)
    \/ \E c \in {x \in Sockets : readyState[x] \in {OPEN, CLOSING}},
          pick \in Picks(appLogic, KnownIds, HasRoom(1)) :
          OnClose(c, pick)
    \/ \E c \in Sockets : OnError(c)
    \/ Close

Spec == Init /\ [][Next]_vars

\* ws.close() starts the closing handshake and the ws library ends a
\* connection whose peer does not answer after its close timeout, so a
\* socket that is CLOSING emits 'close' in the end.
FairSpec ==
    /\ Init
    /\ [][Next]_vars
    /\ \A c \in Sockets :
          WF_vars(/\ readyState[c] = CLOSING
                  /\ \E pick \in Picks(appLogic, KnownIds, HasRoom(1)) :
                        OnClose(c, pick))

\* The server as src/server/src/index.ts builds it, with chatAppLogic.  Its
\* callbacks read Date.now() in the handler that calls them: t in the
\* 'connection' handler, the clock as it stands in the others.
ChatServerInit ==
    /\ WSServerNew("chatAppLogic")
    /\ PageNew(NoConfig)
    /\ ChatNew(chatCreateInitialState, 0)
    /\ app = AppUnmounted("")

ChatServerNext ==
    \/ \E c \in {x \in Sockets : readyState[x] = PENDING},
          t \in {now, now + 1} \cap (0..MaxClock), r \in 1..MaxRnd :
          OnConnection(c, t, r, <<t>>)
    \/ \E c \in {x \in Sockets : receiving[x]}, data \in Frames :
          OnMessage(c, data, <<now>>)
    \/ \E c \in Sockets : PeerClosing(c)
    \/ \E c \in {x \in Sockets : readyState[x] \in {OPEN, CLOSING}} :
          OnClose(c, <<>>)
    \/ \E c \in Sockets : OnError(c)
    \/ Close

ChatServerSpec == ChatServerInit /\ [][ChatServerNext]_vars

\* ---------------------------------------------------- the page's events
\* The WSClient in its page, before an operation runs.
Here == World(wsClient, browser, <<>>)

\* The run has a socket and a timer left for what the operation asked for.
Fits(w) == w.b.created <= MaxSockets /\ w.b.timerCount <= MaxTimers

\* The operation op took the page to w.
ClientApply(op, arg, w) ==
    /\ ~browser.hung
    /\ Fits(w)
    /\ wsClient' = w.c
    /\ browser' = w.b
    /\ cev' = CEv(op, arg, w.log)
    /\ UNCHANGED config
    /\ UNCHANGED <<serverVars, chatVars>>

\* The page calls one of the WSClient's methods.
Called ==
    /\ apiCalls < MaxCalls
    /\ apiCalls' = apiCalls + 1
    /\ UNCHANGED <<autoAttempts, app>>

CallConnect ==
    /\ Called
    /\ ClientApply("connect", 0, connect(Here))
    /\ disconnected' = FALSE

CallDisconnect ==
    /\ Called
    /\ ClientApply("disconnect", 0, disconnect(Here))
    /\ disconnected' = TRUE

CallSend(message) ==
    /\ Called
    /\ ClientApply("send", message, send(Here, message))
    /\ UNCHANGED disconnected

CallOn(event, callback) ==
    /\ Called
    /\ ClientApply("on", event, on(Here, event, callback))
    /\ UNCHANGED disconnected

\* window's 'beforeunload' listener, set by the constructor: disconnect().
BeforeUnload ==
    /\ Called
    /\ ClientApply("beforeunload", 0, disconnect(Here))
    /\ disconnected' = TRUE

\* Socket s is connected: it becomes OPEN and its onopen runs.
WsOpen(s) ==
    /\ browser.readyState[s] = CONNECTING
    /\ ClientApply("onopen", s,
                   onopen(World(wsClient,
                                [browser EXCEPT !.readyState[s] = OPEN], <<>>), s))
    /\ autoAttempts' = 0
    /\ UNCHANGED <<apiCalls, disconnected, app>>

\* An OPEN socket s delivers the frame data to its onmessage.
WsMessage(s, data) ==
    /\ browser.readyState[s] = OPEN
    /\ ClientApply("onmessage", s, onmessage(Here, s, data))
    /\ UNCHANGED <<apiCalls, autoAttempts, disconnected, app>>

\* Socket s is closed: it becomes CLOSED, and in one task its onerror runs
\* if the connection failed, and then its onclose.  A connection that was
\* never established has failed.
WsClose(s, failed) ==
    /\ browser.readyState[s] \in {CONNECTING, OPEN, CLOSING}
    /\ browser.readyState[s] = CONNECTING => failed
    /\ LET w0 == World(wsClient, [browser EXCEPT !.readyState[s] = CLOSED], <<>>)
           w1 == IF failed THEN onerror(w0, s) ELSE w0
       IN ClientApply("onclose", s, onclose(w1, s))
    /\ UNCHANGED <<apiCalls, autoAttempts, disconnected, app>>

\* The pending timer t fires: its callback calls connect().
TimerFires(t) ==
    /\ t \in browser.timers
    /\ ClientApply("timer", t.id,
                   connect(World(wsClient, [browser EXCEPT !.timers = @ \ {t}],
                                 <<>>)))
    /\ autoAttempts' = IF Connects(Here) THEN autoAttempts + 1 ELSE autoAttempts
    /\ UNCHANGED <<apiCalls, disconnected, app>>

ClientInit ==
    /\ WSServerNew("testAppLogic")
    /\ \E cfg \in Configs : PageNew(cfg)
    /\ ChatNew(chatCreateInitialState, 0)
    /\ app = AppUnmounted("")

ClientNext ==
    \/ CallConnect
    \/ CallDisconnect
    \/ \E message \in ClientMsgs : CallSend(message)
    \/ \E event \in Events : \E callback \in CallbacksFor(event) :
          CallOn(event, callback)
    \/ BeforeUnload
    \/ \E s \in ClientSockets : WsOpen(s)
    \/ \E s \in ClientSockets, data \in {FrameBad, FrameNull} : WsMessage(s, data)
    \/ \E s \in ClientSockets, failed \in BOOLEAN : WsClose(s, failed)
    \/ \E t \in browser.timers : TimerFires(t)

ClientSpec == ClientInit /\ [][ClientNext]_vars

\* getClientCount(): this.clients.size.
\* ------------------------------------------------- chatAppLogic's calls
\* The clients whose callbacks are invoked, and one that has left.
ChatIds == {generateClientId(0, 1), generateClientId(0, 2)}
LeftId == generateClientId(0, 3)

\* A text of n characters.
Long(n) == [i \in 1..n |-> "x"]

\* The messages handleMessage is given: names and texts with and without
\* white space around them, blank ones, texts at and over the length limit,
\* messages without payload, an unknown type, and null.
ChatMessages ==
    {JSValue("object", "setUsername", TRUE, name) :
        name \in {<<"A", "l">>, <<" ", "B", "o", " ">>, <<" ">>}}
    \cup {JSValue("object", "sendMessage", TRUE, text) :
            text \in {<<"h", "i">>, <<" ", "h", "i", "\n">>, <<" ">>,
                      <<" ">> \o Long(MaxMessageLength) \o <<" ">>,
                      Long(MaxMessageLength + 1)}}
    \cup {JSValue("object", "setUsername", FALSE, <<>>),
          JSValue("object", "ping", FALSE, <<>>),
          JSValue("null", Undefined, FALSE, <<>>)}

\* The chat history after n messages of a client that has left since.
Earlier(n) ==
    [k \in 1..n |-> ChatMessage(Anonymous, <<"o", "l", "d">>, k, LeftId)]

\* Whether the handler of message reads Date.now().
ReadsClock(message) == message.type = "sendMessage" /\ message.hasPayload

\* A callback of chatAppLogic returned h; Date.now() is t by then.
ChatApply(cb, id, message, h, t) ==
    /\ chatCalls < MaxChatCalls
    /\ chatCalls' = chatCalls + 1
    /\ chatState' = h.state
    /\ chatNow' = t
    /\ chatEv' = ChatEv(cb, id, message, h.calls, h.threw)
    /\ UNCHANGED <<serverVars, clientVars, app>>

OnChatConnect(id, t) ==
    ChatApply("handleConnect", id, NoChatMessage,
              chatHandleConnect(chatState, id, t), t)

OnChatDisconnect(id) ==
    ChatApply("handleDisconnect", id, NoChatMessage,
              chatHandleDisconnect(chatState, id), chatNow)

OnChatMessage(id, message, t) ==
    ChatApply("handleMessage", id, message,
              chatHandleMessage(chatState, id, message, t), t)

\* The chat starts empty, or with a history that is full.
ChatInit ==
    /\ WSServerNew("testAppLogic")
    /\ PageNew(NoConfig)
    /\ \E n \in {0, MaxHistory} :
          ChatNew(ChatState(<<>>, Earlier(n)), n)
    /\ app = AppUnmounted("")

ChatNext ==
    \/ \E id \in ChatIds, t \in {chatNow, chatNow + 1} : OnChatConnect(id, t)
    \/ \E id \in ChatIds : OnChatDisconnect(id)
    \/ \E id \in ChatIds, message \in ChatMessages :
          \E t \in IF ReadsClock(message) THEN {chatNow, chatNow + 1} ELSE {chatNow} :
              OnChatMessage(id, message, t)

ChatSpec == ChatInit /\ [][ChatNext]_vars

\* ------------------------------------------------------------------ App
\* The WSClient in its page together with the App component.
UI(w, a) == [w |-> w, a |-> a]

StoredNames == {"", "Al"}
TypedNames == {"Al", "Bo"}

\* useEffect(() => { if (connected && username) wsClient.send(setUsername) },
\* [username, connected]): it runs after a render in which a dependency
\* differs from the last run's.
\* Mutant: the effect sends nothing.
usernameEffectIdle(u) ==
    [u EXCEPT !.a.deps = <<u.a.username, u.a.connected>>]

usernameEffect(u) ==
    IF ~u.a.mounted \/ u.a.deps = <<u.a.username, u.a.connected>> THEN u
    ELSE LET w1 == IF u.a.connected /\ u.a.username # ""
                   THEN send(u.w, ClientMsg("setUsername", u.a.username))
                   ELSE u.w
         IN UI(w1, [u.a EXCEPT !.deps = <<u.a.username, u.a.connected>>])

\* The 'open' callback the mount effect registers: setConnected(true), and
\* setUsername with the username of the render that registered it.
openCallback(u) ==
    LET a1 == IF u.a.mounted THEN [u.a EXCEPT !.connected = TRUE] ELSE u.a
        w1 == IF u.a.openUsername # ""
              THEN send(u.w, ClientMsg("setUsername", u.a.openUsername))
              ELSE u.w
    IN UI(w1, a1)

\* The 'close' callback: setConnected(false).
closeCallback(u) ==
    IF u.a.mounted THEN [u EXCEPT !.a.connected = FALSE] ELSE u

\* The page with App in it took the step op to u.
AppApply(op, arg, u) ==
    /\ ClientApply(op, arg, u.w)
    /\ app' = u.a

\* The user does something with the page.
UserActs ==
    /\ apiCalls < MaxCalls
    /\ apiCalls' = apiCalls + 1
    /\ UNCHANGED autoAttempts

\* App is rendered: the state is initialized (username from localStorage),
\* the mount effect registers the four callbacks and calls connect(), the
\* username effect runs with connected false.
AppMount ==
    /\ ~app.mounted
    /\ UserActs
    /\ LET a == AppState(TRUE, app.stored, app.stored, FALSE, app.stored,
                         <<app.stored, FALSE>>)
           w1 == on(on(on(on(Here, "open", PlainCallback), "close", PlainCallback),
                       "error", PlainCallback), "message", PlainCallback)
       IN AppApply("mount", 0, UI(connect(w1), a))
    /\ disconnected' = FALSE

\* App is removed: the mount effect's cleanup calls disconnect().  The
\* callbacks stay registered with the WSClient.
AppUnmount ==
    /\ app.mounted
    /\ UserActs
    /\ AppApply("unmount", 0,
                UI(disconnect(Here),
                   [app EXCEPT !.mounted = FALSE, !.connected = FALSE]))
    /\ disconnected' = TRUE

\* handleSaveUsername with the trimmed input name: setUsername(name),
\* localStorage.setItem; then the render and the username effect.
AppSaveUsername(name) ==
    /\ app.mounted
    /\ UserActs
    /\ AppApply("saveUsername", name,
                usernameEffect(UI(Here, [app EXCEPT !.username = name,
                                                    !.stored = name])))
    /\ UNCHANGED disconnected

\* handleSendMessage with a text that is not blank.
AppSendMessage ==
    /\ app.mounted
    /\ UserActs
    /\ AppApply("sendMessage", 0, UI(send(Here, SendMessage), app))
    /\ UNCHANGED disconnected

\* Socket s is connected: onopen runs the 'open' callback last, then React
\* renders and the username effect runs.
AppWsOpen(s) ==
    /\ browser.readyState[s] = CONNECTING
    /\ LET w1 == onopen(World(wsClient,
                              [browser EXCEPT !.readyState[s] = OPEN], <<>>), s)
           u1 == IF w1.b.hung \/ w1.c.callbacks["open"] = NoCallback
                 THEN UI(w1, app)
                 ELSE usernameEffect(openCallback(UI(w1, app)))
       IN AppApply("onopen", s, u1)
    /\ autoAttempts' = 0
    /\ UNCHANGED <<apiCalls, disconnected>>

\* Socket s is closed: onerror if the connection failed, onclose with the
\* 'close' callback, then React renders and the username effect runs.
AppWsClose(s, failed) ==
    /\ browser.readyState[s] \in {CONNECTING, OPEN, CLOSING}
    /\ browser.readyState[s] = CONNECTING => failed
    /\ LET w0 == World(wsClient, [browser EXCEPT !.readyState[s] = CLOSED], <<>>)
           w1 == IF failed THEN onerror(w0, s) ELSE w0
           w2 == onclose(w1, s)
           u1 == IF w2.c.callbacks["close"] = NoCallback
                 THEN UI(w2, app)
                 ELSE usernameEffect(closeCallback(UI(w2, app)))
       IN AppApply("onclose", s, u1)
    /\ UNCHANGED <<apiCalls, autoAttempts, disconnected>>

AppInit ==
    /\ WSServerNew("testAppLogic")
    /\ PageNew(NoConfig)
    /\ ChatNew(chatCreateInitialState, 0)
    /\ \E stored \in StoredNames : app = AppUnmounted(stored)

\* A frame that arrives goes to handleMessage, which changes only the
\* messages shown; a timer that fires calls connect().
AppNext ==
    \/ AppMount
    \/ AppUnmount
    \/ \E name \in TypedNames : AppSaveUsername(name)
    \/ AppSendMessage
    \/ \E s \in ClientSockets : AppWsOpen(s)
    \/ \E s \in ClientSockets, failed \in BOOLEAN : AppWsClose(s, failed)
    \/ \E s \in ClientSockets : WsMessage(s, FrameNull)
    \/ \E t \in browser.timers : TimerFires(t)

AppSpec == AppInit /\ [][AppNext]_vars

getClientCount == MapSize(clients)

\* ------------------------------------------------------------ the claims
\* Socket c is a value of the registry.
Registered(c) == \E i \in 1..Len(clients) : clients[i].ws = c

\* The ws.send calls among sends that went to socket c.
SendsTo(sends, c) == SelectSeq(sends, LAMBDA x : x.ws = c)

\* C1: between event handlers getClientCount() equals the number of
\* handleConnect invocations minus the number of handleDisconnect
\* invocations made so far.
C1_CountIsConnectsMinusDisconnects ==
    getClientCount + Total(disconnects) = Total(connects)

\* C2: when both 'close' and 'error' have fired for a connection, in either
\* order, its handlers have invoked handleDisconnect exactly once and removed
\* its id from the registry exactly once; neither ever happens twice.
C2_DisconnectOnce ==
    \A c \in Sockets :
        /\ disconnects[c] <= 1
        /\ deletes[c] <= 1
        /\ (closeEvents[c] >= 1 /\ errorEvents[c] >= 1) =>
               (disconnects[c] = 1 /\ deletes[c] = 1)

\* Both events have fired for one connection, the 'error' last.
C2_Witness ==
    \E c \in Sockets :
        /\ closeEvents[c] = 1
        /\ errorEvents[c] = 1
        /\ ev.kind = "error"
        /\ ev.ws = c

\* C3: an 'error' event on a registered connection by itself removes the
\* connection from the registry and invokes handleDisconnect for its id.
C3_ErrorCleansUp ==
    \A c \in Sockets :
        errorEvents[c] >= 1 => (~Registered(c) /\ disconnects[c] >= 1)

\* The helper calls of the event handler that ran last.
Calls(op) == {k \in 1..Len(ev.calls) : ev.calls[k].op = op}

\* C4: broadcastAll(m) writes m exactly once to every registered connection
\* that is OPEN and nothing to the others, whatever the registry holds and
\* wherever the connections that are not OPEN stand in it.
C4_BroadcastAll ==
    \A k \in Calls("broadcastAll") : \A c \in Sockets :
        SendsTo(ev.calls[k].sends, c) =
            IF Registered(c) /\ readyState[c] = OPEN
            THEN <<Send(c, JSONstringify(ev.calls[k].msg))>>
            ELSE <<>>

\* A broadcastAll over a registry whose first entry is not OPEN reached the
\* OPEN entry visited after it, once.
C4_Witness ==
    \E k \in Calls("broadcastAll") :
        /\ Len(clients) >= 2
        /\ readyState[clients[1].ws] # OPEN
        /\ readyState[clients[2].ws] = OPEN
        /\ SendsTo(ev.calls[k].sends, clients[1].ws) = <<>>
        /\ Len(SendsTo(ev.calls[k].sends, clients[2].ws)) = 1

\* C5: broadcastExcept(A, m) writes m exactly once to every registered OPEN
\* connection registered under an id other than A and nothing to the one
\* registered under A; with A not registered it does what broadcastAll(m) does.
C5_BroadcastExcept ==
    \A k \in Calls("broadcastExcept") :
        LET d == ev.calls[k] IN
        /\ \A i \in 1..Len(clients) :
              SendsTo(d.sends, clients[i].ws) =
                  IF clients[i].id # d.to /\ readyState[clients[i].ws] = OPEN
                  THEN <<Send(clients[i].ws, JSONstringify(d.msg))>>
                  ELSE <<>>
        /\ \A c \in Sockets : ~Registered(c) => SendsTo(d.sends, c) = <<>>
        /\ ~MapHas(clients, d.to) => d.sends = broadcastAll(clients, readyState, d.msg)

\* A broadcastExcept(A, m) with A registered and OPEN reached another
\* connection.
C5_Witness ==
    \E k \in Calls("broadcastExcept") :
        /\ MapHas(clients, ev.calls[k].to)
        /\ readyState[MapGet(clients, ev.calls[k].to)] = OPEN
        /\ Len(ev.calls[k].sends) >= 1

\* C6: sendTo(id, m) writes nothing when id is not registered or its socket
\* is not OPEN, and otherwise writes m to the socket registered under id and
\* to no other.
C6_SendTo ==
    \A k \in Calls("sendTo") :
        LET d == ev.calls[k] IN
        /\ (\A i \in 1..Len(clients) : clients[i].id # d.to) => d.sends = <<>>
        /\ \A i \in 1..Len(clients) :
              clients[i].id = d.to =>
                  d.sends = IF readyState[clients[i].ws] = OPEN
                            THEN <<Send(clients[i].ws, JSONstringify(d.msg))>>
                            ELSE <<>>

\* A sendTo("nonexistent", m) was made while a connection was open.
C6_Witness ==
    \E k \in Calls("sendTo") :
        /\ ev.calls[k].to = Nonexistent
        /\ \E c \in Sockets : Registered(c) /\ readyState[c] = OPEN

\* C7: a frame of an open connection X that is unparsable, or parses to
\* something that is no record with a type, gets X exactly one error
\* response and nobody else anything, invokes no handleMessage, and leaves X
\* registered and open.
C7_NonConformingFrame ==
    (/\ ev.kind = "message"
     /\ readyState[ev.ws] = OPEN
     /\ ~(JSONparse(ev.frame).ok /\ IsEnvelope(JSONparse(ev.frame).value)))
    => /\ ev.cbs = <<>>
       /\ AllSends(ev.calls) = <<Send(ev.ws, JSONstringify(InvalidFormat))>>
       /\ Registered(ev.ws)

\* C8: the client ids of simultaneously open connections are pairwise
\* distinct.
C8_IdsDistinct ==
    \A c, d \in Sockets :
        (/\ c # d
         /\ readyState[c] \in {OPEN, CLOSING}
         /\ readyState[d] \in {OPEN, CLOSING})
        => clientId[c] # clientId[d]

\* The frames of fs that parse, as the contexts handleMessage gets for id.
RECURSIVE Parsed(_, _)
Parsed(fs, id) ==
    IF fs = <<>> THEN <<>>
    ELSE IF JSONparse(Head(fs)).ok
         THEN <<Context(id, JSONparse(Head(fs)).value)>> \o Parsed(Tail(fs), id)
         ELSE Parsed(Tail(fs), id)

\* C9: handleConnect is invoked exactly once for every accepted connection,
\* after the connection is in the registry under its new id: a sendTo to
\* that id from inside handleConnect is written to the new connection, so
\* testAppLogic's welcome is the first thing the connection gets.
C9_ConnectOnceAfterRegister ==
    /\ \A c \in Sockets : connects[c] = IF readyState[c] = PENDING THEN 0 ELSE 1
    /\ ev.kind = "connection" =>
          /\ ev.cbs = <<Cb("handleConnect", ev.id, NoValue)>>
          /\ \A k \in Calls("sendTo") :
                ev.calls[k].to = ev.id =>
                    ev.calls[k].sends = <<Send(ev.ws, JSONstringify(ev.calls[k].msg))>>
          /\ appLogic = "testAppLogic" =>
                sent[ev.ws] = <<JSONstringify(Welcome(ev.id))>>

\* testAppLogic's welcome reached the connection just accepted.
C9_Witness ==
    /\ ev.kind = "connection"
    /\ appLogic = "testAppLogic"
    /\ Accepted = 2
    /\ sent[ev.ws] = <<JSONstringify(Welcome(ev.id))>>

\* C10: the handleMessage invocations made for a connection are, in order,
\* exactly its frames that parsed, each with that connection's id.
C10_HandledInOrder ==
    \A c \in Sockets : handled[c] = Parsed(arrived[c], clientId[c])

\* Two different frames of one connection were both handled.
C10_Witness ==
    \E c \in Sockets :
        /\ Len(arrived[c]) = 2
        /\ Len(handled[c]) = 2
        /\ handled[c][1] # handled[c][2]

\* C11: once a connection has started closing, by its peer or by close(),
\* its handlers invoke no handleConnect and no handleMessage any more, and
\* handleDisconnect at most once: a handler that invoked handleConnect or
\* handleMessage ran for a connection that is OPEN.
C11_NoCallbackOnceClosing ==
    /\ \A c \in Sockets : disconnects[c] <= 1
    /\ \A i \in 1..Len(ev.cbs) :
          ev.cbs[i].cb \in {"handleConnect", "handleMessage"} =>
              readyState[ev.ws] = OPEN

\* C12: close() asks every registered connection to close, so none of them
\* is OPEN when it has stopped the listening server, and from then on no
\* connection is accepted, registered or reported to handleConnect.
C12_CloseAllThenStop ==
    [][/\ (wssListening /\ ~wssListening') =>
              \A i \in 1..Len(clients) : readyState'[clients[i].ws] # OPEN
       /\ ~wssListening =>
              /\ ~wssListening'
              /\ Accepted' = Accepted
              /\ connects' = connects
              /\ \A i \in 1..Len(clients') :
                    \E j \in 1..Len(clients) : clients[j] = clients'[i]]_vars

\* close() has just run over two registered connections while the transport
\* had another connection to hand over.
C12_Witness ==
    /\ ev.kind = "shutdown"
    /\ ~wssListening
    /\ Len(clients) = 2
    /\ \A i \in 1..Len(clients) : readyState[clients[i].ws] = CLOSING
    /\ \E c \in Sockets : readyState[c] = PENDING
    /\ HasRoom(1)

\* C13: between event handlers a connection is a value of the registry if
\* and only if its transport is open or closing, and the id of a connection
\* whose 'close' was processed is not a key of the registry.
C13_RegisteredIffLive ==
    \A c \in Sockets :
        /\ Registered(c) <=> readyState[c] \in {OPEN, CLOSING}
        /\ closeEvents[c] >= 1 => ~MapHas(clients, clientId[c])

\* The registry entries of m that belong to connections other than c.
EntriesOfOthers(m, c) == {m[i] : i \in {j \in 1..Len(m) : m[j].ws # c}}

\* C14: the handler of a frame, an 'error' or a 'close' of connection X
\* leaves the registry entry of every other connection as it was.
C14_OthersEntriesUnchanged ==
    [][\A c \in Sockets :
          (ev'.kind \in {"message", "error", "close"} /\ ev'.ws = c) =>
              EntriesOfOthers(clients', c) = EntriesOfOthers(clients, c)]_vars

\* The sockets the transport has handed over and that are open.
OpenSockets == {c \in Sockets : readyState[c] = OPEN}

\* C15: with testAppLogic and two connections open, when the one frame that
\* has arrived is a sendMessage with text hi, each of the two connections
\* has been sent its own welcome and then the echo, once, and nothing else.
C15_EchoReachesBoth ==
    (/\ appLogic = "testAppLogic"
     /\ ev.kind = "message"
     /\ ev.frame = FrameSend
     /\ FramesArrived = 1
     /\ Accepted = 2
     /\ Cardinality(OpenSockets) = 2)
    => \A c \in OpenSockets :
          sent[c] = <<JSONstringify(Welcome(clientId[c])),
                      JSONstringify(SystemMessage("echo:hi"))>>

\* C16: the 'close' handler removes the connection's id from the registry
\* and then invokes handleDisconnect once: the helper calls made from inside
\* it work on the registry without that id, write nothing to the
\* disconnecting connection, and getClientCount() does not count it.
C16_UnregisterBeforeDisconnect ==
    ev.kind = "close" =>
        /\ ev.cbs = <<Cb("handleDisconnect", ev.id, NoValue)>>
        /\ ~MapHas(clients, ev.id)
        /\ ~Registered(ev.ws)
        /\ getClientCount = Cardinality({c \in Sockets : Registered(c)})
        /\ \A k \in 1..Len(ev.calls) :
              /\ ev.calls[k].sends = createHelpers(clients, readyState, ev.calls[k])
              /\ SendsTo(ev.calls[k].sends, ev.ws) = <<>>

\* A broadcastAll made from inside handleDisconnect reached the connection
\* that stayed and not the one that left.
C16_Witness ==
    /\ ev.kind = "close"
    /\ \E k \in Calls("broadcastAll") :
          /\ Len(ev.calls[k].sends) = 1
          /\ ev.calls[k].sends[1].ws # ev.ws
    /\ getClientCount = 1

\* The state a callback invocation leaves when it is given the state st.
StateAfter(cb, st) ==
    CASE cb.cb = "handleConnect" -> handleConnect(appLogic, st, cb.id, <<>>).state
      [] cb.cb = "handleMessage" ->
            handleMessage(appLogic, st, cb.id, cb.message, <<>>).state
      [] cb.cb = "handleDisconnect" ->
            handleDisconnect(appLogic, st, cb.id, <<>>).state

\* C17: until a connection is accepted this.state is what
\* createInitialState() made; an event handler that invokes no callback
\* leaves it as it is, and one that invokes a callback leaves what that
\* callback made of the state as it was.
C17_StateThreaded ==
    [][/\ Accepted = 0 => state = createInitialState(appLogic)
       /\ ev'.cbs = <<>> => state' = state
       /\ ev'.cbs # <<>> =>
             /\ Len(ev'.cbs) = 1
             /\ state' = StateAfter(ev'.cbs[1], state)]_vars

\* testAppLogic's handleDisconnect got the state two handleConnect calls
\* had left and took the id of the leaving connection out of it.
C17_Witness ==
    /\ appLogic = "testAppLogic"
    /\ ev.kind = "close"
    /\ Len(state) = 1
    /\ state[1] # ev.id
    /\ errorEvents[ev.ws] = 1

\* The messages of q as send() writes them, in order.
Stringified(q) == [i \in 1..Len(q) |-> JSONstringify(q[i])]

\* C18: a send(m) made while there is no socket or the socket is not OPEN
\* appends m to the queue and writes nothing; the onopen of a socket writes
\* the queued messages to that socket, in queue order and each once, before
\* it runs the 'open' callback, and leaves the queue empty.
C18_QueueThenFlush ==
    [][/\ (cev'.op = "send" /\ ReadyStateOf(Here) # OPEN) =>
              /\ wsClient'.messageQueue = Append(wsClient.messageQueue, cev'.arg)
              /\ browser'.wire = browser.wire
       /\ cev'.op = "onopen" =>
              LET s == cev'.arg
                  q == wsClient.messageQueue
                  n == Len(q)
              IN /\ ~browser'.hung
                 /\ wsClient'.messageQueue = <<>>
                 /\ Len(cev'.log) >= n
                 /\ \A i \in 1..n :
                       /\ cev'.log[i].act = "send"
                       /\ cev'.log[i].on = s
                       /\ cev'.log[i].arg = JSONstringify(q[i])
                 /\ Len(browser'.wire[s]) >= Len(browser.wire[s]) + n
                 /\ SubSeq(browser'.wire[s], 1, Len(browser.wire[s]) + n)
                        = browser.wire[s] \o Stringified(q)
                 /\ \A x \in ClientSockets \ {s} :
                       browser'.wire[x] = browser.wire[x]]_vars

\* A socket has opened with two different messages in the queue: both were
\* written, then the 'open' callback ran.
C18_Witness ==
    /\ cev.op = "onopen"
    /\ Len(cev.log) >= 3
    /\ cev.log[1].act = "send"
    /\ cev.log[2].act = "send"
    /\ cev.log[1].arg # cev.log[2].arg
    /\ cev.log[3].act = "callback"
    /\ wsClient.messageQueue = <<>>
    /\ Len(browser.wire[cev.arg]) >= 2

RECURSIVE Pow2(_)
Pow2(n) == IF n = 0 THEN 1 ELSE 2 * Pow2(n - 1)

\* The initial reconnect delay the WSClient was configured with.
InitialReconnectDelay == OrDefault(config.initialReconnectDelay, DefaultReconnectDelay)

\* C19: the delay of the timer set for the k-th consecutive reconnect
\* attempt since the last successful open is
\* min(initialReconnectDelay * 2^(k-1), maxReconnectDelay).
C19_BackoffDelay ==
    \A t \in browser.timers :
        t.delay = Min(InitialReconnectDelay * Pow2(t.attempt - 1),
                      wsClient.maxReconnectDelay)

\* C20: the sockets that reconnect timers have asked for since a socket
\* last opened are never more than maxReconnectAttempts, and an onclose
\* that finds reconnectAttempts at maxReconnectAttempts sets no timer and
\* creates no socket.
C20_AttemptsBounded ==
    [][/\ wsClient'.maxReconnectAttempts # Infinity =>
              autoAttempts' <= wsClient'.maxReconnectAttempts[1]
       /\ (/\ cev'.op = "onclose"
           /\ AtLeast(wsClient.reconnectAttempts, wsClient.maxReconnectAttempts))
          => /\ browser'.timers = browser.timers
             /\ browser'.timerCount = browser.timerCount
             /\ browser'.created = browser.created]_vars

\* C25: the only error message the WSServer core itself sends is 'Invalid
\* message format', and only in answer to a frame that failed to parse: a
\* frame that JSON.parse accepts never makes the core send it, whatever the
\* handler does with the parsed value.
C25_InvalidFormatOnlyOnParseFailure ==
    \A k \in 1..Len(ev.calls) :
        ev.calls[k].msg = InvalidFormat
            => (ev.kind = "message" /\ ~JSONparse(ev.frame).ok)

\* The broadcast calls of the event handler that ran last.
Broadcasts == Calls("broadcastAll") \cup Calls("broadcastExcept")

\* The sockets a broadcast call reaches: the registered ones that are OPEN,
\* but for the excluded id.
Recipients(call) ==
    {clients[n].ws : n \in {m \in 1..Len(clients) :
        /\ readyState[clients[m].ws] = OPEN
        /\ call.op = "broadcastExcept" => clients[m].id # call.to}}

\* C26: within one broadcastAll or broadcastExcept call the message is
\* serialized once and every recipient gets the identical payload; the
\* recipients are the ones the registry holds at the time of the call, each
\* written to once.
C26_SerializedOnce ==
    \A k \in Broadcasts :
        LET s == ev.calls[k].sends IN
        /\ \A i, j \in 1..Len(s) : s[i].data = s[j].data
        /\ \A i \in 1..Len(s) : s[i].data = JSONstringify(ev.calls[k].msg)
        /\ \A i, j \in 1..Len(s) : i # j => s[i].ws # s[j].ws
        /\ {s[i].ws : i \in 1..Len(s)} = Recipients(ev.calls[k])

\* A broadcast reached two recipients.
C26_Witness ==
    \E k \in Calls("broadcastAll") :
        /\ Len(ev.calls[k].sends) = 2
        /\ ev.calls[k].sends[1].ws # ev.calls[k].sends[2].ws
        /\ ev.calls[k].sends[1].data = ev.calls[k].sends[2].data

\* The handleConnect and handleDisconnect invocations made so far for id.
ConnectsOf(id) ==
    Total([c \in Sockets |-> IF clientId[c] = id THEN connects[c] ELSE 0])

DisconnectsOf(id) ==
    Total([c \in Sockets |-> IF clientId[c] = id THEN disconnects[c] ELSE 0])

\* C27: for every client id the callbacks are one handleConnect, then
\* handleMessage invocations, then at most one handleDisconnect: no
\* handleMessage or handleDisconnect for an id comes before its
\* handleConnect or after its handleDisconnect.
C27_CallbackOrderPerId ==
    /\ \A id \in KnownIds : ConnectsOf(id) = 1 /\ DisconnectsOf(id) <= 1
    /\ \A i \in 1..Len(ev.cbs) :
        /\ ConnectsOf(ev.cbs[i].id) >= 1
        /\ ev.cbs[i].cb = "handleMessage" => DisconnectsOf(ev.cbs[i].id) = 0

\* C28: close() itself removes no registry entry and invokes no
\* handleDisconnect; once every closing socket has emitted 'close', the
\* registry is empty and handleDisconnect has been invoked exactly once for
\* every client close() found registered, by that client's 'close' handler.
C28_CloseThenDrain ==
    /\ [][ev'.kind = "shutdown"
            => clients' = clients /\ disconnects' = disconnects]_vars
    /\ ~wssListening
         ~> [](/\ clients = <<>>
               /\ \A n \in 1..Len(atClose) : disconnects[atClose[n].ws] = 1)

\* close() found two clients registered and both have emitted 'close'.
C28_Witness ==
    /\ ~wssListening
    /\ Len(atClose) = 2
    /\ clients = <<>>
    /\ \A n \in 1..Len(atClose) :
          closeEvents[atClose[n].ws] = 1 /\ disconnects[atClose[n].ws] = 1

\* C29: from a disconnect() until the page's next connect() no reconnect
\* timer is pending, none is set and no socket is created.
C29_NoReconnectAfterDisconnect ==
    [][disconnected'
         => /\ browser'.timers = {}
            /\ disconnected
                 => /\ browser'.created = browser.created
                    /\ browser'.timerCount = browser.timerCount]_vars

\* The sockets of the page that are CONNECTING or OPEN.
LiveSockets ==
    {s \in ClientSockets : browser.readyState[s] \in {CONNECTING, OPEN}}

\* C30: at any time at most one reconnect timer is pending, which is the
\* one disconnect() would clear, and at most one socket is CONNECTING or
\* OPEN.
C30_OneTimerOneSocket ==
    /\ Cardinality(browser.timers) <= 1
    /\ \A t \in browser.timers : t.id = wsClient.reconnectTimeout
    /\ Cardinality(LiveSockets) <= 1

\* The event that ran last was handleMessage for a user, with a message of
\* the given type that has a payload.
ChatHandled(type) ==
    /\ chatEv'.cb = "handleMessage"
    /\ chatEv'.message.type = type
    /\ chatEv'.message.hasPayload
    /\ HasUser(chatState, chatEv'.id)

\* C21: from the empty initial state, handleConnect leaves exactly one user,
\* keyed by the id and named 'Anonymous', and makes exactly one helper
\* call: sendTo the id of a welcome carrying the id.
C21_ConnectFromEmpty ==
    [][(chatEv'.cb = "handleConnect" /\ chatState = chatCreateInitialState)
         => /\ chatState'.users = <<User(chatEv'.id, Anonymous, chatNow')>>
            /\ chatState'.messageHistory = <<>>
            /\ chatEv'.calls = <<Call("sendTo", chatEv'.id, Welcome(chatEv'.id))>>]_vars

\* The first callback was handleConnect, on the empty state.
C21_Witness ==
    /\ chatCalls = 1
    /\ chatEv.cb = "handleConnect"
    /\ chatState.messageHistory = <<>>
    /\ Len(chatState.users) = 1
    /\ chatEv.calls # <<>>

ValidText(text) == trim(text) # <<>> /\ Len(trim(text)) <= MaxMessageLength

\* C23: a valid sendMessage from a connected user appends one entry to
\* messageHistory, with the sender's username, the trimmed text and the
\* sender's id, and makes exactly one helper call: broadcastAll of a
\* chatMessage whose payload is that entry.
C23_SendMessageAppendsAndBroadcasts ==
    [][(ChatHandled("sendMessage") /\ ValidText(chatEv'.message.text))
         => LET id == chatEv'.id
                entry == ChatMessage(UserOf(chatState, id).username,
                                     trim(chatEv'.message.text), chatNow', id)
                before == chatState.messageHistory
                after == chatState'.messageHistory
            IN /\ after # <<>>
               /\ after[Len(after)] = entry
               /\ SubSeq(after, 1, Len(after) - 1) =
                    IF Len(before) < MaxHistory THEN before ELSE Tail(before)
               /\ chatEv'.calls =
                    <<Call("broadcastAll", NoId, ChatMessageOut(entry))>>
               /\ chatState'.users = chatState.users]_vars

\* A named user's text with white space around it was accepted: the entry
\* is the last of the history and went out.
C23_Witness ==
    /\ chatEv.cb = "handleMessage"
    /\ chatEv.message.type = "sendMessage"
    /\ chatEv.message.hasPayload
    /\ chatEv.message.text # trim(chatEv.message.text)
    /\ chatEv.calls # <<>>
    /\ chatEv.calls[1].op = "broadcastAll"
    /\ chatState.messageHistory # <<>>
    /\ chatState.messageHistory[Len(chatState.messageHistory)].username = <<"A", "l">>
    /\ chatEv.calls[1].msg =
         ChatMessageOut(chatState.messageHistory[Len(chatState.messageHistory)])

\* What the step wrote to socket s.
Written(s) ==
    SubSeq(browser'.wire[s], Len(browser.wire[s]) + 1, Len(browser'.wire[s]))

\* C24: whenever a socket of the mounted App opens while its username is
\* not empty, a setUsername with that username is written to the socket.
C24_UsernameSentOnOpen ==
    [][(cev'.op = "onopen" /\ app'.mounted /\ app'.username # "")
         => \E i \in 1..Len(Written(cev'.arg)) :
                Written(cev'.arg)[i] =
                    JSONstringify(ClientMsg("setUsername", app'.username))]_vars

\* A socket opened on a reconnect, after the username was changed since the
\* component mounted, and the new username went out on it.
C24_Witness ==
    /\ cev.op = "onopen"
    /\ cev.arg >= 2
    /\ app.mounted
    /\ app.username # ""
    /\ app.username # app.openUsername
    /\ \E i \in 1..Len(browser.wire[cev.arg]) :
          browser.wire[cev.arg][i] =
              JSONstringify(ClientMsg("setUsername", app.username))

\* What the operation that ran last did of the kind act.
Acts(act) == {i \in 1..Len(cev.log) : cev.log[i].act = act}

\* C31: the loop that onopen runs over the queue ends: the socket whose
\* open event is handled is this.ws and OPEN, so every send of the loop
\* writes its message and queues none, and onopen returns with the queue
\* empty.
C31_FlushTerminates ==
    [][cev'.op = "onopen" =>
          /\ wsClient.ws = cev'.arg
          /\ ~browser'.hung
          /\ \A i \in 1..Len(cev'.log) : cev'.log[i].act # "queue"
          /\ wsClient'.messageQueue = <<>>]_vars

\* A socket has opened with three messages in the queue and no 'open'
\* callback registered: the loop wrote the three and ended.
C31_Witness ==
    /\ cev.op = "onopen"
    /\ Len(cev.log) = 3
    /\ Acts("send") = 1..3
    /\ wsClient.messageQueue = <<>>
    /\ ~browser.hung

\* C32: onopen sets reconnectAttempts to 0 and reconnectDelay to the
\* initialReconnectDelay the WSClient was configured with.
C32_OpenResetsBackoff ==
    [][cev'.op = "onopen" =>
          /\ wsClient'.reconnectAttempts = 0
          /\ wsClient'.reconnectDelay = InitialReconnectDelay]_vars

\* C33: connect() called while this.ws is OPEN or CONNECTING creates no
\* socket and sets no timer, and leaves this.ws, the queue, the reconnect
\* counters and isManualClose as they were.
C33_ConnectIsNoOp ==
    [][(cev'.op = "connect" /\ ReadyStateOf(Here) \in {OPEN, CONNECTING}) =>
          /\ wsClient' = wsClient
          /\ browser' = browser
          /\ cev'.log = <<>>]_vars

\* connect() was called with this.ws CONNECTING, a message queued and a
\* reconnect attempt counted, and did nothing.
C33_Witness ==
    /\ cev.op = "connect"
    /\ cev.log = <<>>
    /\ ReadyStateOf(Here) = CONNECTING
    /\ wsClient.messageQueue # <<>>
    /\ wsClient.reconnectAttempts > 0

\* The last n elements of s, all of s when it has no more.
LastN(s, n) == IF Len(s) <= n THEN s ELSE SubSeq(s, Len(s) - n + 1, Len(s))

\* The step was a handleMessage that accepted a chat message.
AcceptsChatMessage ==
    ChatHandled("sendMessage") /\ ValidText(chatEv'.message.text)

\* C34: no callback leaves more than 100 entries in messageHistory (which
\* starts with no more); a callback that accepts a chat message leaves the
\* last 100 of the history with that message appended, and every other
\* callback leaves the history as it was: the history is the most recently
\* accepted messages, oldest first.
C34_HistoryIsLastAccepted ==
    [][/\ Len(chatState'.messageHistory) <= MaxHistory
       /\ IF AcceptsChatMessage
          THEN /\ Len(chatEv'.calls) = 1
               /\ chatState'.messageHistory =
                    LastN(Append(chatState.messageHistory,
                                 chatEv'.calls[1].msg.payload), MaxHistory)
          ELSE chatState'.messageHistory = chatState.messageHistory]_vars

\* Two messages were accepted into a full history: the two oldest are gone
\* and the two new ones are at the end, in the order they were accepted.
C34_Witness ==
    LET h == chatState.messageHistory IN
    /\ Len(h) = MaxHistory
    /\ h[1] = Earlier(MaxHistory)[3]
    /\ h[MaxHistory - 2] = Earlier(MaxHistory)[MaxHistory]
    /\ h[MaxHistory - 1].clientId \in ChatIds
    /\ h[MaxHistory].clientId \in ChatIds
    /\ h[MaxHistory - 1].text # h[MaxHistory].text

C37_UserLeftOnce ==
    [][chatEv'.cb = "handleDisconnect" =>
          LET id == chatEv'.id IN
          IF HasUser(chatState, id)
          THEN /\ chatEv'.calls =
                    <<Call("broadcastAll", NoId,
                           UserLeft(UserOf(chatState, id).username))>>
               /\ chatState'.users =
                    SelectSeq(chatState.users, LAMBDA u : u.clientId # id)
               /\ ~HasUser(chatState', id)
               /\ chatState'.messageHistory = chatState.messageHistory
          ELSE /\ chatEv'.calls = <<>>
               /\ chatState' = chatState]_vars

\* A user who had taken a name left while another stayed: userLeft went
\* out with that name and only that user is gone.
C37_Witness ==
    /\ chatEv.cb = "handleDisconnect"
    /\ chatEv.calls = <<Call("broadcastAll", NoId, UserLeft(<<"A", "l">>))>>
    /\ ~HasUser(chatState, chatEv.id)
    /\ Len(chatState.users) = 1

\* The keys of the chat's users map, and those of the registry.
UserIds == {state.users[i].clientId : i \in 1..Len(state.users)}
ClientIds == {clients[i].id : i \in 1..Len(clients)}

\* C36: with chatAppLogic as the server's AppLogic, after every handled
\* event the users map and the registry have the same keys, and the users
\* map has getClientCount() entries.
C36_UsersMatchRegistry ==
    /\ UserIds = ClientIds
    /\ Len(state.users) = getClientCount

\* Two clients connected, one took a name and the other has gone: the
\* named one is the only user and the only registry entry.
C36_Witness ==
    /\ Len(state.users) = 1
    /\ state.users[1].username = <<"A", "l">>
    /\ \E c \in Sockets : disconnects[c] = 1 /\ clientId[c] # state.users[1].clientId
    /\ ClientIds = {state.users[1].clientId}

====
